---- MODULE Spec2Model ----
(***************************************************************************)
(* Model of rustflight's PyCache (src/src/py_waiter.rs): a keyed call     *)
(* coalescing cache.  Caller c is the c-th call of PyCache::py_call to    *)
(* start; at most NumThreads calls run at a time, on concurrent threads,  *)
(* and interleave at every point where the code can block (a Mutex::lock, *)
(* the Condvar::wait_timeout) or where the computation runs.              *)
(* PyCache::drop is run by further threads.                               *)
(* The Python token `py` is treated as an opaque capability.              *)
(* RustFlight (src/src/lib.rs) is a separate object with its own store;   *)
(* its calls are modelled by the RF actions and the specification SpecRF. *)
(* SimpleWaiter (src/src/lib.rs) is a third object: the SW actions and    *)
(* the specifications SpecSW and FairSpecSW.                              *)
(***************************************************************************)
EXTENDS Naturals, Integers, FiniteSets, Sequences, TLC

\* ---- bounds ----
MaxCalls == 4
NumThreads == 3
NumKeys == 2
NumValues == 2
MaxDrops == 1

Callers == 1..MaxCalls
Keys == 1..NumKeys
Values == 1..NumValues

\* ---- encodings of Rust's Option / unlocked Mutex / unwinding ----
NoValue == 0
NoOne == 0
Panicked == -1

VARIABLES
    cache,          \* PyCache.cache: key -> PyEntryState (or absent)
    cache_lock,     \* holder of the Mutex around the map
    entries,        \* the PyCacheEntry behind the Arc<(Mutex, Condvar)> created by each call
    entry_lock,     \* holder of each entry's Mutex
    pc,             \* position of each call inside py_call
    key,            \* `key` argument of the call
    pending_entry,  \* the Arc the call holds (lock_var, later pending_entry)
    result,         \* `result` local of the call
    ret,            \* outcome of the call
    drops,          \* number of drop calls made
    dropped,        \* per key: has drop(key) ever run
    fresh_evict,    \* per key: stale value removed by a drop no call has looked past yet
    after_evict,    \* per call: that stale value, if the call is the first lookup after the drop
    evicted,        \* per call: drop(key) ran while the call owned a computation for key
    live,           \* per key: a call for the key returned a value and drop(key) has not run since
    call_cache,     \* RustFlight.call_cache: key -> boxed value with its type (or absent)
    rf_pc,          \* position of each call inside RustFlight::call / py_call
    rf_op,          \* which method the call runs: "call" or "py_call"
    rf_key,         \* `key` argument of the call
    rf_type,        \* the value type T the call asks for (Py<PyAny> for py_call)
    rf_result,      \* `result` local of the call
    rf_ret,         \* outcome of the call
    sw_cache,       \* SimpleWaiter.cache: key -> EntryState (or absent)
    sw_cache_lock,  \* holder of the SimpleWaiter.cache mutex
    sw_entries,     \* the CacheEntry behind each notification Arc, by creating call
    sw_entry_lock,  \* holder of the mutex of each CacheEntry
    sw_pc,          \* position of each call inside call_with_cache
    sw_key,         \* `key` argument of the call
    sw_pending,     \* the `pending` Arc found by the lookup
    sw_result,      \* `result` local of the call
    sw_ret          \* outcome of the call

vars == <<cache, cache_lock, entries, entry_lock, pc, key, pending_entry, result,
          ret, drops, dropped, fresh_evict, after_evict, evicted,
          live, call_cache, rf_pc, rf_op, rf_key, rf_type, rf_result, rf_ret,
          sw_cache, sw_cache_lock, sw_entries, sw_entry_lock, sw_pc, sw_key, sw_pending,
          sw_result, sw_ret>>

py_vars == <<cache, cache_lock, entries, entry_lock, pc, key, pending_entry, result,
             ret, drops, dropped, fresh_evict, after_evict, evicted, live>>

rf_vars == <<call_cache, rf_pc, rf_op, rf_key, rf_type, rf_result, rf_ret>>

\* The other objects, which a step of PyCache leaves alone.
sw_vars == <<sw_cache, sw_cache_lock, sw_entries, sw_entry_lock, sw_pc, sw_key,
             sw_pending, sw_result, sw_ret>>

others == <<rf_vars, sw_vars>>

\* ---- PyCacheEntry / PyEntryState constructors ----
PyCacheEntryNotReady(value, ready) == [value |-> value, ready |-> FALSE]

PyCacheEntry(value, ready) == [value |-> value, ready |-> ready]

PyCacheEntryPending == PyCacheEntry(NoValue, FALSE)

PyCacheEntryReadyNoValue(entry, new_value) == [entry EXCEPT !.ready = TRUE]

PyCacheEntryReady(entry, new_value) == [entry EXCEPT !.value = new_value, !.ready = TRUE]

Absent == [state |-> "Absent", entry |-> PyCacheEntryPending, handle |-> NoOne]

Ready(entry) == [state |-> "Ready", entry |-> entry, handle |-> NoOne]

Pending(h) == [state |-> "Pending", entry |-> PyCacheEntryPending, handle |-> h]

\* HashMap::insert / HashMap::remove on the map
InsertIfPresent(map, k, st) == IF map[k] = Absent THEN map ELSE [map EXCEPT ![k] = st]

Insert(map, k, st) == [map EXCEPT ![k] = st]

RemoveKeepsSlot(map, k) == map

RemoveAll(map, k) == [j \in DOMAIN map |-> Absent]

Remove(map, k) == [map EXCEPT ![k] = Absent]

\* ---- RustFlight: Box<dyn Any> values and the outcomes of a call ----
Types == {"i8", "PyAny"}

NoType == "none"

TypeMismatch == -2

PyErr == -3

Boxed(t, v) == [type |-> t, value |-> v]

NotCached == Boxed(NoType, NoValue)

\* RustFlight::new
InitRF ==
    /\ call_cache = [k \in Keys |-> NotCached]
    /\ rf_pc = [c \in Callers |-> "idle"]
    /\ rf_op = [c \in Callers |-> "call"]
    /\ rf_key = [c \in Callers |-> 1]
    /\ rf_type = [c \in Callers |-> "i8"]
    /\ rf_result = [c \in Callers |-> NoValue]
    /\ rf_ret = [c \in Callers |-> NoValue]

\* ---- SimpleWaiter: CacheEntry and EntryState ----
CacheEntry(value, ready) == [value |-> value, ready |-> ready]

CacheEntryPending == CacheEntry(NoValue, FALSE)

SWAbsent == [state |-> "Absent", value |-> NoValue, handle |-> NoOne]

SWReady(v) == [state |-> "Ready", value |-> v, handle |-> NoOne]

SWPending(h) == [state |-> "Pending", value |-> NoValue, handle |-> h]

\* SimpleWaiter::new
InitSW ==
    /\ sw_cache = [k \in Keys |-> SWAbsent]
    /\ sw_cache_lock = NoOne
    /\ sw_entries = [c \in Callers |-> CacheEntryPending]
    /\ sw_entry_lock = [c \in Callers |-> NoOne]
    /\ sw_pc = [c \in Callers |-> "idle"]
    /\ sw_key = [c \in Callers |-> 1]
    /\ sw_pending = [c \in Callers |-> NoOne]
    /\ sw_result = [c \in Callers |-> NoValue]
    /\ sw_ret = [c \in Callers |-> NoValue]

\* PyCache::new
InitPy ==
    /\ cache = [k \in Keys |-> Absent]
    /\ cache_lock = NoOne
    /\ entries = [h \in Callers |-> PyCacheEntryPending]
    /\ entry_lock = [h \in Callers |-> NoOne]
    /\ pc = [c \in Callers |-> "idle"]
    /\ key = [c \in Callers |-> 1]
    /\ pending_entry = [c \in Callers |-> NoOne]
    /\ result = [c \in Callers |-> NoValue]
    /\ ret = [c \in Callers |-> NoValue]
    /\ drops = 0
    /\ dropped = [k \in Keys |-> FALSE]
    /\ fresh_evict = [k \in Keys |-> NoValue]
    /\ after_evict = [c \in Callers |-> NoValue]
    /\ evicted = [c \in Callers |-> FALSE]
    /\ live = [k \in Keys |-> FALSE]

Init == InitPy /\ InitRF /\ InitSW

hist == <<drops, dropped, fresh_evict, after_evict, evicted>>

\* The call is inside py_call (between entry and return).
InCall(c) == pc[c] \notin {"idle", "done"}

\* The c-th call py_call(key = k) starts on a free thread and is about to
\* take the map lock.
Call(c, k) ==
    /\ pc[c] = "idle"
    /\ \A d \in Callers : d < c => pc[d] # "idle"
    /\ Cardinality({d \in Callers : InCall(d)}) < NumThreads
    /\ pc' = [pc EXCEPT ![c] = "lock_cache"]
    /\ key' = [key EXCEPT ![c] = k]
    /\ UNCHANGED <<cache, cache_lock, entries, entry_lock, pending_entry, result, ret>>
    /\ UNCHANGED <<hist, live>>
    /\ UNCHANGED others

\* "Insert waiting state and drop call": the call's own fresh Arc is put
\* into the map as Pending and the map lock is released.
InsertPending(c) ==
    /\ cache' = Insert(cache, key[c], Pending(c))
    /\ cache_lock' = NoOne
    /\ pending_entry' = [pending_entry EXCEPT ![c] = c]
    /\ pc' = [pc EXCEPT ![c] = "computing"]

\* Return of py_call with value v: every guard the call holds is dropped.
Return(c, v) ==
    /\ pc' = [pc EXCEPT ![c] = "done"]
    /\ ret' = [ret EXCEPT ![c] = v]
    /\ live' = [live EXCEPT ![key[c]] = @ \/ v \in Values]
    /\ cache_lock' = IF cache_lock = c THEN NoOne ELSE cache_lock
    /\ entry_lock' = [h \in Callers |-> IF entry_lock[h] = c THEN NoOne ELSE entry_lock[h]]

\* Value of an Option<Py<PyAny>> after .expect(): a panic when it is None.
Expect(value) == IF value = NoValue THEN Panicked ELSE value

\* The call gets the map lock and looks its key up.
LockCache(c) ==
    /\ pc[c] = "lock_cache"
    /\ cache_lock = NoOne
    /\ LET st == cache[key[c]] IN
       /\ after_evict' = [after_evict EXCEPT ![c] = fresh_evict[key[c]]]
       /\ fresh_evict' = [fresh_evict EXCEPT ![key[c]] = NoValue]
       /\ IF st.state = "Ready"
          THEN /\ Return(c, Expect(st.entry.value))
               /\ UNCHANGED <<cache, entries, key, pending_entry, result>>
          ELSE IF st.state = "Pending"
          THEN /\ cache_lock' = c
               /\ pending_entry' = [pending_entry EXCEPT ![c] = st.handle]
               /\ pc' = [pc EXCEPT ![c] = "lock_entry"]
               /\ UNCHANGED <<cache, entries, entry_lock, key, result, ret, live>>
          ELSE /\ InsertPending(c)
               /\ UNCHANGED <<entries, entry_lock, key, result, ret, live>>
    /\ UNCHANGED <<drops, dropped, evicted>>
    /\ UNCHANGED others

\* Pending branch: the call, still holding the map lock, takes the entry's
\* lock; a ready entry is returned, otherwise the call enters wait_timeout,
\* which releases the entry's lock (not the map lock).
LockEntry(c) ==
    /\ pc[c] = "lock_entry"
    /\ entry_lock[pending_entry[c]] = NoOne
    /\ LET entry == entries[pending_entry[c]] IN
       IF entry.ready
       THEN /\ Return(c, Expect(entry.value))
            /\ UNCHANGED <<cache, entries, key, pending_entry, result>>
       ELSE /\ pc' = [pc EXCEPT ![c] = "waiting"]
            /\ UNCHANGED <<cache, cache_lock, entries, entry_lock, key,
                           pending_entry, result, ret, live>>
    /\ UNCHANGED hist
    /\ UNCHANGED others

\* wait_timeout returns (notification, elapsed timeout or spurious wake-up)
\* once the entry's lock can be re-acquired.  A ready entry is returned;
\* otherwise the loop is left by `break` and the call falls through to the
\* insertion of its own Pending entry.
WaitReturn(c) ==
    /\ pc[c] = "waiting"
    /\ entry_lock[pending_entry[c]] = NoOne
    /\ LET guard == entries[pending_entry[c]] IN
       IF guard.ready
       THEN /\ Return(c, Expect(guard.value))
            /\ UNCHANGED <<cache, entries, key, pending_entry, result>>
       ELSE /\ InsertPending(c)
            /\ UNCHANGED <<entries, entry_lock, key, result, ret, live>>
    /\ UNCHANGED hist
    /\ UNCHANGED others

\* "Do calculation": py_func.call returns v.
ComputeOk(c, v) ==
    /\ pc[c] = "computing"
    /\ result' = [result EXCEPT ![c] = v]
    /\ pc' = [pc EXCEPT ![c] = "mark_ready"]
    /\ UNCHANGED <<cache, cache_lock, entries, entry_lock, key, pending_entry, ret>>
    /\ UNCHANGED <<hist, live>>
    /\ UNCHANGED others

\* "Do calculation": py_func.call fails (or an argument downcast does) and
\* .expect(..) unwinds out of py_call; no lock is held at that point.
ComputeFail(c) ==
    /\ pc[c] = "computing"
    /\ pc' = [pc EXCEPT ![c] = "done"]
    /\ ret' = [ret EXCEPT ![c] = Panicked]
    /\ UNCHANGED <<cache, cache_lock, entries, entry_lock, key, pending_entry, result>>
    /\ UNCHANGED <<hist, live>>
    /\ UNCHANGED others

\* "Notify waiting values and update state": the owner locks its entry, sets
\* value and ready and notifies; the guard `entry` stays alive.
MarkReady(c) ==
    /\ pc[c] = "mark_ready"
    /\ entry_lock[pending_entry[c]] = NoOne
    /\ entry_lock' = [entry_lock EXCEPT ![pending_entry[c]] = c]
    /\ entries' = [entries EXCEPT ![pending_entry[c]] = PyCacheEntryReady(@, result[c])]
    /\ pc' = [pc EXCEPT ![c] = "final_update"]
    /\ UNCHANGED <<cache, cache_lock, key, pending_entry, result, ret>>
    /\ UNCHANGED <<hist, live>>
    /\ UNCHANGED others

\* "Return": the owner re-takes the map lock, stores Ready and returns.
FinalUpdate(c) ==
    /\ pc[c] = "final_update"
    /\ cache_lock = NoOne
    /\ cache' = Insert(cache, key[c], Ready(PyCacheEntry(result[c], TRUE)))
    /\ Return(c, result[c])
    /\ UNCHANGED <<entries, key, pending_entry, result>>
    /\ UNCHANGED hist
    /\ UNCHANGED others

\* The call owns a computation: it inserted its Pending entry and has not
\* returned yet.
Owner(c) == pc[c] \in {"computing", "mark_ready", "final_update"}

\* PyCache::drop(key = k), run by a thread of its own.
Drop(k) ==
    /\ drops < MaxDrops
    /\ cache_lock = NoOne
    /\ cache' = Remove(cache, k)
    /\ drops' = drops + 1
    /\ dropped' = [dropped EXCEPT ![k] = TRUE]
    /\ fresh_evict' = [fresh_evict EXCEPT ![k] =
           IF \E d \in Callers : InCall(d) /\ key[d] = k THEN NoValue
           ELSE IF cache[k].state = "Ready" THEN cache[k].entry.value
           ELSE IF cache[k].state = "Absent" THEN @
           ELSE NoValue]
    /\ evicted' = [c \in Callers |-> evicted[c] \/ (Owner(c) /\ key[c] = k)]
    /\ live' = [live EXCEPT ![k] = FALSE]
    /\ UNCHANGED <<cache_lock, entries, entry_lock, pc, key, pending_entry,
                   result, ret, after_evict>>
    /\ UNCHANGED others

Next ==
    \/ \E c \in Callers :
        \/ \E k \in Keys : Call(c, k)
        \/ LockCache(c)
        \/ LockEntry(c)
        \/ WaitReturn(c)
        \/ \E v \in Values : ComputeOk(c, v)
        \/ ComputeFail(c)
        \/ MarkReady(c)
        \/ FinalUpdate(c)
    \/ \E k \in Keys : Drop(k)

Spec == Init /\ [][Next]_vars

\* ---- RustFlight::call and RustFlight::py_call ----
\* The c-th call starts: op(func, args, key = k), asking for a value of type t.
RFCall(c, op, k, t) ==
    /\ rf_pc[c] = "idle"
    /\ \A d \in Callers : d < c => rf_pc[d] # "idle"
    /\ Cardinality({d \in Callers : rf_pc[d] \notin {"idle", "done"}}) < NumThreads
    /\ op = "py_call" => t = "PyAny"
    /\ rf_pc' = [rf_pc EXCEPT ![c] = "read"]
    /\ rf_op' = [rf_op EXCEPT ![c] = op]
    /\ rf_key' = [rf_key EXCEPT ![c] = k]
    /\ rf_type' = [rf_type EXCEPT ![c] = t]
    /\ UNCHANGED <<call_cache, rf_result, rf_ret>>

\* Result of downcast_ref::<T>() on a boxed value: the value, or none.
Downcast(boxed, t) == IF boxed.type = t THEN boxed.value ELSE NoValue

\* The lookup under the read lock.  A hit of the right type is returned; a
\* hit of another type is an error in `call` and only logged in `py_call`,
\* which then goes on like a miss; the read guard is gone before the
\* function runs.
RFRead(c) ==
    /\ rf_pc[c] = "read"
    /\ LET cached == call_cache[rf_key[c]] IN
       IF cached # NotCached /\ Downcast(cached, rf_type[c]) # NoValue
       THEN /\ rf_pc' = [rf_pc EXCEPT ![c] = "done"]
            /\ rf_ret' = [rf_ret EXCEPT ![c] = Downcast(cached, rf_type[c])]
       ELSE IF cached # NotCached /\ rf_op[c] = "call"
       THEN /\ rf_pc' = [rf_pc EXCEPT ![c] = "done"]
            /\ rf_ret' = [rf_ret EXCEPT ![c] = TypeMismatch]
       ELSE /\ rf_pc' = [rf_pc EXCEPT ![c] = "computing"]
            /\ UNCHANGED rf_ret
    /\ UNCHANGED <<call_cache, rf_op, rf_key, rf_type, rf_result>>

\* func(args) returns v; no lock is held.
RFComputeOk(c, v) ==
    /\ rf_pc[c] = "computing"
    /\ rf_result' = [rf_result EXCEPT ![c] = v]
    /\ rf_pc' = [rf_pc EXCEPT ![c] = "write"]
    /\ UNCHANGED <<call_cache, rf_op, rf_key, rf_type, rf_ret>>

\* py_call only: an argument downcast or func.call fails and `?` returns the
\* PyErr.
RFComputeFail(c) ==
    /\ rf_pc[c] = "computing"
    /\ rf_op[c] = "py_call"
    /\ rf_pc' = [rf_pc EXCEPT ![c] = "done"]
    /\ rf_ret' = [rf_ret EXCEPT ![c] = PyErr]
    /\ UNCHANGED <<call_cache, rf_op, rf_key, rf_type, rf_result>>

\* The insert under the write lock, and the return of the result.
RFWrite(c) ==
    /\ rf_pc[c] = "write"
    /\ call_cache' = [call_cache EXCEPT ![rf_key[c]] = Boxed(rf_type[c], rf_result[c])]
    /\ rf_pc' = [rf_pc EXCEPT ![c] = "done"]
    /\ rf_ret' = [rf_ret EXCEPT ![c] = rf_result[c]]
    /\ UNCHANGED <<rf_op, rf_key, rf_type, rf_result>>

NextRF ==
    \E c \in Callers :
        \/ \E op \in {"call", "py_call"}, k \in Keys, t \in Types :
               RFCall(c, op, k, t) /\ UNCHANGED <<py_vars, sw_vars>>
        \/ RFRead(c) /\ UNCHANGED <<py_vars, sw_vars>>
        \/ \E v \in Values : RFComputeOk(c, v) /\ UNCHANGED <<py_vars, sw_vars>>
        \/ RFComputeFail(c) /\ UNCHANGED <<py_vars, sw_vars>>
        \/ RFWrite(c) /\ UNCHANGED <<py_vars, sw_vars>>

SpecRF == Init /\ [][NextRF]_vars

\* ---- SimpleWaiter::call_with_cache ----
\* The c-th call starts: call_with_cache(f, args, key = k).
SWCall(c, k) ==
    /\ sw_pc[c] = "idle"
    /\ \A d \in Callers : d < c => sw_pc[d] # "idle"
    /\ Cardinality({d \in Callers : sw_pc[d] \notin {"idle", "done"}}) < NumThreads
    /\ sw_pc' = [sw_pc EXCEPT ![c] = "lock_cache"]
    /\ sw_key' = [sw_key EXCEPT ![c] = k]
    /\ UNCHANGED <<sw_cache, sw_cache_lock, sw_entries, sw_entry_lock, sw_pending,
                   sw_result, sw_ret>>

\* self.cache.lock() and the match on cache.get(&key).  Ready: the value is
\* returned and the guard dropped.  Pending: the call goes on to the entry
\* with the guard `cache` still alive.  None: a Pending entry is inserted and
\* the guard dropped before f runs.
SWLockCache(c) ==
    /\ sw_pc[c] = "lock_cache"
    /\ sw_cache_lock = NoOne
    /\ LET st == sw_cache[sw_key[c]] IN
       IF st.state = "Ready"
       THEN /\ sw_pc' = [sw_pc EXCEPT ![c] = "done"]
            /\ sw_ret' = [sw_ret EXCEPT ![c] = st.value]
            /\ UNCHANGED <<sw_cache, sw_cache_lock, sw_entries, sw_pending>>
       ELSE IF st.state = "Pending"
       THEN /\ sw_cache_lock' = c
            /\ sw_pending' = [sw_pending EXCEPT ![c] = st.handle]
            /\ sw_pc' = [sw_pc EXCEPT ![c] = "lock_entry"]
            /\ UNCHANGED <<sw_cache, sw_entries, sw_ret>>
       ELSE /\ sw_entries' = [sw_entries EXCEPT ![c] = CacheEntryPending]
            /\ sw_cache' = [sw_cache EXCEPT ![sw_key[c]] = SWPending(c)]
            /\ sw_pc' = [sw_pc EXCEPT ![c] = "computing"]
            /\ UNCHANGED <<sw_cache_lock, sw_pending, sw_ret>>
    /\ UNCHANGED <<sw_entry_lock, sw_key, sw_result>>

\* lock.lock() on the entry found Pending.
SWLockEntry(c) ==
    /\ sw_pc[c] = "lock_entry"
    /\ sw_entry_lock[sw_pending[c]] = NoOne
    /\ sw_entry_lock' = [sw_entry_lock EXCEPT ![sw_pending[c]] = c]
    /\ sw_pc' = [sw_pc EXCEPT ![c] = "check_ready"]
    /\ UNCHANGED <<sw_cache, sw_cache_lock, sw_entries, sw_key, sw_pending, sw_result,
                   sw_ret>>

\* The test of `while !done.ready`.  Not ready: cvar.wait(done) gives up the
\* entry lock.  Ready: self.cache.lock() is called by the thread that
\* still holds the guard `cache`; std leaves the outcome open between
\* blocking for ever and a panic.
SWCheckReady(c) ==
    /\ sw_pc[c] = "check_ready"
    /\ IF ~sw_entries[sw_pending[c]].ready
       THEN /\ sw_entry_lock' = [sw_entry_lock EXCEPT ![sw_pending[c]] = NoOne]
            /\ sw_pc' = [sw_pc EXCEPT ![c] = "waiting"]
            /\ UNCHANGED sw_ret
       ELSE \E outcome \in {"blocked", "panicked"} :
               /\ sw_pc' = [sw_pc EXCEPT ![c] = outcome]
               /\ sw_ret' = [sw_ret EXCEPT ![c] =
                                IF outcome = "panicked" THEN Panicked ELSE @]
               /\ UNCHANGED sw_entry_lock
    /\ UNCHANGED <<sw_cache, sw_cache_lock, sw_entries, sw_key, sw_pending, sw_result>>

\* cvar.wait returns, after notify_all or spuriously, with the entry lock
\* taken again.
SWWake(c) ==
    /\ sw_pc[c] = "waiting"
    /\ sw_entry_lock[sw_pending[c]] = NoOne
    /\ sw_entry_lock' = [sw_entry_lock EXCEPT ![sw_pending[c]] = c]
    /\ sw_pc' = [sw_pc EXCEPT ![c] = "check_ready"]
    /\ UNCHANGED <<sw_cache, sw_cache_lock, sw_entries, sw_key, sw_pending, sw_result,
                   sw_ret>>

\* f(args) returns v; no lock is held.
SWCompute(c, v) ==
    /\ sw_pc[c] = "computing"
    /\ sw_result' = [sw_result EXCEPT ![c] = v]
    /\ sw_pc' = [sw_pc EXCEPT ![c] = "final_update"]
    /\ UNCHANGED <<sw_cache, sw_cache_lock, sw_entries, sw_entry_lock, sw_key,
                   sw_pending, sw_ret>>

\* self.cache.lock(), the insert of Ready(result), notify_all and the
\* return.  The CacheEntry itself is not touched: `ready` stays false.
SWFinalUpdate(c) ==
    /\ sw_pc[c] = "final_update"
    /\ sw_cache_lock = NoOne
    /\ sw_cache' = [sw_cache EXCEPT ![sw_key[c]] = SWReady(sw_result[c])]
    /\ sw_pc' = [sw_pc EXCEPT ![c] = "done"]
    /\ sw_ret' = [sw_ret EXCEPT ![c] = sw_result[c]]
    /\ UNCHANGED <<sw_cache_lock, sw_entries, sw_entry_lock, sw_key, sw_pending,
                   sw_result>>

SWStep(c) ==
    /\ \/ \E k \in Keys : SWCall(c, k)
       \/ SWLockCache(c)
       \/ SWLockEntry(c)
       \/ SWCheckReady(c)
       \/ SWWake(c)
       \/ \E v \in Values : SWCompute(c, v)
       \/ SWFinalUpdate(c)
    /\ UNCHANGED <<py_vars, rf_vars>>

NextSW ==
    \E c \in Callers :
        \/ \E k \in Keys : SWCall(c, k) /\ UNCHANGED <<py_vars, rf_vars>>
        \/ SWLockCache(c) /\ UNCHANGED <<py_vars, rf_vars>>
        \/ SWLockEntry(c) /\ UNCHANGED <<py_vars, rf_vars>>
        \/ SWCheckReady(c) /\ UNCHANGED <<py_vars, rf_vars>>
        \/ SWWake(c) /\ UNCHANGED <<py_vars, rf_vars>>
        \/ \E v \in Values : SWCompute(c, v) /\ UNCHANGED <<py_vars, rf_vars>>
        \/ SWFinalUpdate(c) /\ UNCHANGED <<py_vars, rf_vars>>

SpecSW == Init /\ [][NextSW]_vars

\* Every thread inside call_with_cache keeps being scheduled.
FairSpecSW == SpecSW /\ \A c \in Callers : WF_vars(SWStep(c))

\* A caller inside py_call takes its next step whenever that step stays
\* possible: the OS scheduler runs every runnable thread, a wait_timeout
\* elapses, and the computations considered terminate.
Step(c) ==
    \/ LockCache(c)
    \/ LockEntry(c)
    \/ WaitReturn(c)
    \/ \E v \in Values : ComputeOk(c, v)
    \/ MarkReady(c)
    \/ FinalUpdate(c)

FairSpec == Spec /\ \A c \in Callers : WF_vars(Step(c))

TypeOK ==
    /\ cache_lock \in Callers \cup {NoOne}
    /\ \A c \in Callers : pc[c] \in {"idle", "lock_cache", "lock_entry", "waiting",
                                     "computing", "mark_ready", "final_update", "done"}
    /\ \A k \in Keys : cache[k].state \in {"Absent", "Pending", "Ready"}

\* ---- vocabulary of the claims ----
\* The caller is running py_func for its key.
Computing(c) == pc[c] = "computing"

\* The caller's last call returned a value.
Returned(c) == pc[c] = "done" /\ ret[c] \in Values

\* The call ran py_func (to a result or to a failure).
Invoked(c) == result[c] # NoValue \/ (pc[c] = "done" /\ ret[c] = Panicked)

\* Number of times py_func was run for the key.
Invocations(k) == Cardinality({c \in Callers : key[c] = k /\ Invoked(c)})

\* A computation for the key failed.
Failed(k) == \E c \in Callers : key[c] = k /\ pc[c] = "done" /\ ret[c] = Panicked

\* C1: for every key at most one computation is in flight at any time.
C1_AtMostOneInFlight ==
    \A k \in Keys : Cardinality({c \in Callers : Computing(c) /\ key[c] = k}) <= 1

\* C2: for a key that was never evicted and whose computations did not fail,
\* the function is invoked at most once and all callers that returned for the
\* key returned the same value.
C2_SingleExecution ==
    \A k \in Keys :
        (~dropped[k] /\ ~Failed(k)) =>
            /\ Invocations(k) <= 1
            /\ \A c, d \in Callers :
                   (Returned(c) /\ Returned(d) /\ key[c] = k /\ key[d] = k)
                       => ret[c] = ret[d]

\* C3: a Ready slot changes in no step other than its removal (after which a
\* new computation may fill it again).
C3_ReadyStable ==
    [][\A k \in Keys :
          cache[k].state = "Ready" => (cache'[k] = cache[k] \/ cache'[k] = Absent)]_vars

\* C4: no caller holds the map lock while it runs the computation or while it
\* is blocked in the condvar wait on an entry.
C4_NoStoreLockAcrossWaitOrCompute ==
    \A c \in Callers : pc[c] \in {"computing", "waiting"} => cache_lock # c

\* C5: a call that is alone on its key always completes (or stops being alone
\* on its key), whatever callers of other keys do.
AloneOnKey(c) == \A d \in Callers \ {c} : InCall(d) => key[d] # key[c]

C5_KeyIndependence ==
    \A c \in Callers :
        (InCall(c) /\ AloneOnKey(c)) ~> (~InCall(c) \/ ~AloneOnKey(c))

\* C6: the step in which a caller's wait times out changes neither the map
\* nor any entry, and ends that caller's call without running the function.
C6_TimeoutIsolated ==
    [][\A c \in Callers :
          (pc[c] = "waiting" /\ pc'[c] # "waiting" /\ ~entries[pending_entry[c]].ready) =>
              /\ cache' = cache
              /\ entries' = entries
              /\ pc'[c] = "done"
              /\ ret'[c] \notin Values]_vars

\* C7: a caller that holds an entry obtained while the key was Pending, once
\* the owner has made that entry ready, returns the entry's value.
HoldsReadyEntry(c, h) ==
    /\ pc[c] \in {"lock_entry", "waiting"}
    /\ pending_entry[c] = h
    /\ entries[h].ready

C7_WaiterObservesReady ==
    \A c, h \in Callers :
        HoldsReadyEntry(c, h) ~> (pc[c] = "done" /\ ret[c] = entries[h].value)

\* C8: a call for a key whose slot is Ready is not kept from its lookup by
\* the map lock, and its next step returns the stored value without running
\* the function.
C8_ReadyIsFree ==
    [][\A c \in Callers :
          (pc[c] = "lock_cache" /\ cache[key[c]].state = "Ready") =>
              /\ cache_lock = NoOne
              /\ pc'[c] # pc[c] =>
                     /\ pc'[c] = "done"
                     /\ ret'[c] = cache[key[c]].entry.value
                     /\ result'[c] = NoValue]_vars

\* C9: a failed computation is an error return that leaves its entry marked
\* ready and its key not Pending on that entry.
C9_FailureResolvesSlot ==
    \A c \in Callers :
        (pc[c] = "done" /\ ret[c] = Panicked) =>
            /\ entries[pending_entry[c]].ready
            /\ cache[key[c]] # Pending(pending_entry[c])

\* C10: the first call to look a key up after drop removed its Ready slot
\* (no call for the key being in flight) runs its own function and returns
\* that function's result.
C10_EvictEnablesRetry ==
    \A c \in Callers :
        after_evict[c] # NoValue =>
            \/ pc[c] \in {"computing", "mark_ready", "final_update"}
            \/ /\ pc[c] = "done"
               /\ Invoked(c)
               /\ ret[c] = Panicked \/ (result[c] \in Values /\ ret[c] = result[c])

C10_Witness ==
    \E c \in Callers :
        /\ after_evict[c] # NoValue
        /\ Returned(c)
        /\ Invoked(c)
        /\ ret[c] # after_evict[c]

\* C11: the final store update of an owner leaves the slot of its key Ready
\* with the owner's computed value, also when drop removed the slot while the
\* owner's computation was in flight.
C11_OwnerStillPromotes ==
    [][\A c \in Callers :
          (pc[c] = "final_update" /\ pc'[c] = "done") =>
              /\ cache'[key[c]] = Ready(PyCacheEntry(result[c], TRUE))
              /\ ret'[c] = result[c]]_vars

C11_Witness ==
    \E c \in Callers :
        /\ evicted[c]
        /\ Returned(c)
        /\ result[c] = ret[c]
        /\ cache[key[c]] = Ready(PyCacheEntry(ret[c], TRUE))

\* C12: a drop(k) step changes the slot of k only (to absent): the other
\* slots, every entry and its lock, and every call's position and locals stay
\* as they are, and nothing changes at all when k had no slot.
DropStep == drops' # drops

C12_DropFrame ==
    [][DropStep =>
          /\ \E k \in Keys :
                 /\ dropped'[k]
                 /\ cache' = [cache EXCEPT ![k] = Absent]
                 /\ cache[k] = Absent => cache' = cache
          /\ UNCHANGED <<cache_lock, entries, entry_lock, pc, key, pending_entry,
                         result, ret>>]_vars

C12_Witness ==
    \E c \in Callers :
        /\ evicted[c]
        /\ pc[c] = "computing"
        /\ cache[key[c]] = Absent
        /\ ~entries[c].ready

\* C13: while a call for a key has returned a value and drop(key) has not run
\* since, the slot of the key is Ready with ready = true and a value, and the
\* next step of a call that is about to look the key up returns the slot's
\* value without running the function.
ReadySlot(st) ==
    /\ st.state = "Ready"
    /\ st.entry.ready
    /\ st.entry.value \in Values

C13_ReturnedStaysReady ==
    [][\A k \in Keys :
          /\ live[k] => ReadySlot(cache[k])
          /\ live'[k] => ReadySlot(cache'[k])
          /\ \A c \in Callers :
                 (live[k] /\ key[c] = k /\ pc[c] = "lock_cache" /\ pc'[c] # pc[c]) =>
                     /\ pc'[c] = "done"
                     /\ ret'[c] = cache[k].entry.value
                     /\ result'[c] = NoValue]_vars

C13_Witness ==
    \E c, d \in Callers :
        /\ c < d
        /\ key[c] = key[d]
        /\ live[key[c]]
        /\ Returned(c) /\ result[c] = ret[c]
        /\ Returned(d) /\ result[d] = NoValue
        /\ ret[d] = ret[c]
        /\ ret[d] = cache[key[d]].entry.value

\* C16: an entry is created only by a call that found its key absent, and an
\* entry changes only once, from not ready to ready, in the step its creator
\* takes after its computation.
CreatesEntry(c) == pending_entry[c] # c /\ pending_entry'[c] = c

C16_EntryLifecycle ==
    [][\A c \in Callers :
          /\ CreatesEntry(c) => cache[key[c]] = Absent
          /\ entries'[c] # entries[c] =>
                 /\ ~entries[c].ready
                 /\ entries'[c].ready
                 /\ pc[c] = "mark_ready"
                 /\ pc'[c] = "final_update"]_vars

\* C18: no two callers wait for each other's locks.
WaitsForMap(c) == pc[c] \in {"lock_cache", "final_update"}

WaitsForEntry(c) == pc[c] \in {"lock_entry", "waiting", "mark_ready"}

WaitsFor(c, d) ==
    \/ WaitsForMap(c) /\ cache_lock = d
    \/ WaitsForEntry(c) /\ entry_lock[pending_entry[c]] = d

C18_DeadlockFree ==
    \A c, d \in Callers : c # d => ~(WaitsFor(c, d) /\ WaitsFor(d, c))

\* C19: an entry whose ready flag is set has a value, the entry of a Ready
\* slot has its ready flag set, and no call ends in the panic of an
\* .expect(..) on an entry's value.
ExpectPanic(c) == pc[c] = "done" /\ ret[c] = Panicked /\ pending_entry[c] # c

C19_ReadyHasValue ==
    /\ \A h \in Callers : entries[h].ready => entries[h].value \in Values
    /\ \A k \in Keys : cache[k].state = "Ready" => ReadySlot(cache[k])
    /\ \A c \in Callers : ~ExpectPanic(c)

C19_Witness ==
    \E c, h \in Callers :
        /\ Returned(c)
        /\ pending_entry[c] = NoOne
        /\ cache[key[c]].state = "Ready"
        /\ entries[h].ready
        /\ entries[h].value = ret[c]

\* ---- RustFlight ----
\* The call ran its function to a result.
RFInvoked(c) == rf_result[c] # NoValue

\* C14: over the calls of RustFlight::call the function is run at most once
\* per key.
C14_OncePerKey ==
    \A k \in Keys :
        Cardinality({c \in Callers :
                        rf_op[c] = "call" /\ rf_key[c] = k /\ RFInvoked(c)}) <= 1

\* C15: a lookup that finds a value of another type than the one asked for
\* ends the call with the type-mismatch error: the function is not run and
\* the slot is left as it is.
C15_TypeMismatchIsError ==
    [][\A c \in Callers :
          (/\ rf_pc[c] = "read"
           /\ rf_pc'[c] # "read"
           /\ call_cache[rf_key[c]] # NotCached
           /\ call_cache[rf_key[c]].type # rf_type[c]) =>
              /\ rf_pc'[c] = "done"
              /\ rf_ret'[c] = TypeMismatch
              /\ call_cache' = call_cache]_vars

\* ---- SimpleWaiter ----
\* The call found its key Pending with the Arc created by call h, and h's
\* computation has finished.
SWWaitsOnFinished(c, h) ==
    /\ sw_pc[c] \in {"lock_entry", "check_ready", "waiting"}
    /\ sw_pending[c] = h
    /\ sw_result[h] # NoValue

\* C17: a call that found its key Pending returns, once the owner's
\* computation has finished, the value the owner computed.
C17_WaiterReturns ==
    \A c, h \in Callers :
        SWWaitsOnFinished(c, h) ~> (sw_pc[c] = "done" /\ sw_ret[c] = sw_result[h])
====
